---- MODULE Spec2Model ----
(***************************************************************************)
(* The lane-flow board: a grid of cells (column x swim lane), collapsible  *)
(* columns and lanes, and the drag-end handler that turns a drop into the  *)
(* onBeforeDrop / onDrop / onItemMove callbacks.                           *)
(*                                                                         *)
(* Two versions of the component carry a drag-end handler:                 *)
(*   "registered": src/unnamed/part_000, the target cell is read from the  *)
(*                 data of the droppable the gesture ended over;           *)
(*   "sortable":   src/src/components/KanbanBoard.tsx, the target cell is  *)
(*                 parsed out of the sortable container id.                *)
(*                                                                         *)
(* Besides the board as a whole (Spec) there are specifications of parts   *)
(* of it with inputs of their own: the grid (SpecGrid), the column widths  *)
(* (SpecLayout), the window of a long list (SpecWindow) and a board whose  *)
(* ids contain '-' (SpecDashed).                                           *)
(*                                                                         *)
(* Strings.  A JavaScript string is modelled as the non-empty sequence of  *)
(* its '-'-free segments: "todo" is <<"todo">>, "in-progress" is           *)
(* <<"in", "progress">>, "" is <<"">>.  s.split('-') is then the sequence  *)
(* itself and `${a}-${b}` is a \o b.  undefined is the empty sequence,     *)
(* which is no string.                                                     *)
(***************************************************************************)
EXTENDS Integers, Sequences, FiniteSets, TLC

VARIABLES
    variant,             \* which version of the component is mounted
    items,               \* props.items: the caller's snapshot
    columns,             \* props.columns: sequence of column ids
    swimLanes,           \* props.swimLanes: sequence of swim-lane ids
    hasBeforeDrop,       \* props.onBeforeDrop is supplied
    hasDrop,             \* props.onDrop is supplied
    hasItemMove,         \* props.onItemMove is supplied
    collapsedColumns,    \* useState<Set<string>>
    collapsedSwimLanes,  \* useState<Set<string>>
    cells,               \* the cell contents computed by the last render
    active,              \* the id the DndContext is dragging, or UNDEFINED
    promise,             \* "pending" while a promise the hook returned is unsettled
    containerWidth,      \* what 100% is, in px, in the rows of the board
    scrollTop,           \* the scroll offset, in px, of each cell's item list
    \* what the last step did (empty unless that step was a drag end):
    event,               \* the DragEndEvent it handled
    hookResult,          \* what onBeforeDrop did when it was called
    calls,               \* the callbacks it invoked, in order
    threw                \* it let an exception escape

vars == <<variant, items, columns, swimLanes, hasBeforeDrop, hasDrop,
          hasItemMove, collapsedColumns, collapsedSwimLanes, cells, active,
          promise, containerWidth, scrollTop, event, hookResult, calls, threw>>

----------------------------------------------------------------------------
\* Bounds

\* longest items snapshot
MaxItems == 2

\* longest list of a single cell
MaxCount == 16

----------------------------------------------------------------------------
\* Strings and identifiers

UNDEFINED == <<>>

Todo == <<"todo">>
Done == <<"done">>
Frontend == <<"frontend">>
Backend == <<"backend">>

ItemIds == {<<"A">>}
ColumnIds == {Todo, Done}
SwimLaneIds == {Frontend, Backend}

\* mutant: nothing is falsy
FalsyNever(v) == FALSE

\* !v for v a string or undefined: undefined and "" are falsy
Falsy(v) == v = UNDEFINED \/ v = <<"">>

\* `${a}-${b}`
Dash(a, b) == a \o b

\* s?.split('-')[i] (i counted from 0): undefined when s is undefined or has
\* no such segment
SplitAt(s, i) == IF i + 1 <= Len(s) THEN <<s[i + 1]>> ELSE UNDEFINED

SeqToSet(s) == {s[i] : i \in DOMAIN s}

\* the duplicate-free sequences over S
Orderings(S) ==
    {q \in UNION {[1..n -> S] : n \in 0..Cardinality(S)} :
        \A i, j \in DOMAIN q : i # j => q[i] # q[j]}

----------------------------------------------------------------------------
\* Items

KanbanItem == [id : ItemIds, column : ColumnIds, swimLane : SwimLaneIds]

NoItem == [id |-> UNDEFINED, column |-> UNDEFINED, swimLane |-> UNDEFINED]

Snapshots == UNION {[1..n -> KanbanItem] : n \in 0..MaxItems}

\* mutant: the filter forgets the swim lane
getItemsForCellByColumn(its, columnId, swimLaneId) ==
    LET Keep(item) == item.column = columnId
    IN  SelectSeq(its, Keep)

\* items.filter(item => item.column === columnId && item.swimLane === swimLaneId)
getItemsForCell(its, columnId, swimLaneId) ==
    LET Keep(item) == item.column = columnId /\ item.swimLane = swimLaneId
    IN  SelectSeq(its, Keep)

\* mutant: an id that is not in the snapshot yields an item with no position
findItemByIdOrBlank(its, id) ==
    LET hits == {i \in DOMAIN its : its[i].id = id}
    IN  IF hits = {} THEN [id |-> id, column |-> UNDEFINED, swimLane |-> UNDEFINED]
        ELSE its[CHOOSE i \in hits : \A j \in hits : i <= j]

\* items.find(item => item.id === id)
findItemById(its, id) ==
    LET hits == {i \in DOMAIN its : its[i].id = id}
    IN  IF hits = {} THEN NoItem
        ELSE its[CHOOSE i \in hits : \A j \in hits : i <= j]

\* the render pass: one cell per (column, swim lane) pair supplied
RenderCells(its, cols, lanes) ==
    [p \in SeqToSet(cols) \X SeqToSet(lanes) |-> getItemsForCell(its, p[1], p[2])]

----------------------------------------------------------------------------
\* Collapse state

\* mutant: the id is added whether or not it is present
ToggleAddOnly(collapsed, id) == collapsed \cup {id}

\* new Set(collapsed), then delete the id if present, add it otherwise
Toggle(collapsed, id) ==
    IF id \in collapsed THEN collapsed \ {id} ELSE collapsed \cup {id}

----------------------------------------------------------------------------
\* The drag-end handler

\* useDroppable({id: `${columnId}-${swimLaneId}`,
\*               data: {column: columnId, swimLane: swimLaneId}})
DroppableCell(columnId, swimLaneId) ==
    [id |-> Dash(columnId, swimLaneId), column |-> columnId,
     swimLane |-> swimLaneId]

\* event.over: null, or the droppable the gesture ended over with the data
\* attached to it: a droppable cell carries column and swimLane, a sortable
\* item carries sortable.containerId.  `cell` is the (column, swim lane) the
\* droppable lies in on screen; no handler reads it.
NoOver == [kind |-> "none", cell |-> <<>>, column |-> UNDEFINED,
           swimLane |-> UNDEFINED, containerId |-> UNDEFINED]
OverCell(c, l) ==
    [kind |-> "cell", cell |-> <<c, l>>, column |-> DroppableCell(c, l).column,
     swimLane |-> DroppableCell(c, l).swimLane, containerId |-> UNDEFINED]
OverSortable(c, l, cid) ==
    [kind |-> "sortable", cell |-> <<c, l>>, column |-> UNDEFINED,
     swimLane |-> UNDEFINED, containerId |-> cid]

DragEndEvent(id, over) == [active |-> id, over |-> over]
NoEvent == DragEndEvent(UNDEFINED, NoOver)

\* what a supplied onBeforeDrop may do when called
HookOutcomes == {"returnsTrue", "returnsFalse", "returnsPromise", "throws"}

\* !canDrop is false for true and for any object, a promise included
Truthy(h) == h \in {"returnsTrue", "returnsPromise"}

BeforeDropCall(item, targetColumn, targetSwimLane) ==
    [fn |-> "onBeforeDrop", itemId |-> item.id,
     sourceColumn |-> item.column, sourceSwimLane |-> item.swimLane,
     targetColumn |-> targetColumn, targetSwimLane |-> targetSwimLane,
     item |-> NoItem]

\* mutant: source and target are swapped
DropCallSwapped(item, targetColumn, targetSwimLane) ==
    [fn |-> "onDrop", itemId |-> item.id,
     sourceColumn |-> targetColumn, sourceSwimLane |-> targetSwimLane,
     targetColumn |-> item.column, targetSwimLane |-> item.swimLane,
     item |-> item]

DropCall(item, targetColumn, targetSwimLane) ==
    [fn |-> "onDrop", itemId |-> item.id,
     sourceColumn |-> item.column, sourceSwimLane |-> item.swimLane,
     targetColumn |-> targetColumn, targetSwimLane |-> targetSwimLane,
     item |-> item]

ItemMoveCall(item, targetColumn, targetSwimLane) ==
    [fn |-> "onItemMove", itemId |-> item.id,
     sourceColumn |-> UNDEFINED, sourceSwimLane |-> UNDEFINED,
     targetColumn |-> targetColumn, targetSwimLane |-> targetSwimLane,
     item |-> NoItem]

\* what one run of the handler did: the callbacks it invoked, what the hook
\* did ("notCalled" when it was not invoked), whether an exception escaped
Outcome(c, h, t) == [calls |-> c, hook |-> h, threw |-> t]
Returned == Outcome(<<>>, "notCalled", FALSE)

\* draggedItem.column === targetColumn && draggedItem.swimLane === targetSwimLane
SameLocation(item, targetColumn, targetSwimLane) ==
    item.column = targetColumn /\ item.swimLane = targetSwimLane

\* mutant: the hook's answer is ignored
CanDropAlways(supplied, h) == TRUE

\* const canDrop = onBeforeDrop ? onBeforeDrop(beforeDropEvent) : true;
\* if (!canDrop) return;
CanDrop(supplied, h) == IF supplied THEN Truthy(h) ELSE TRUE

\* mutant: the legacy handler is called once more
EmitCallsLegacyTwice(item, targetColumn, targetSwimLane, drop, move) ==
    (IF drop THEN <<DropCall(item, targetColumn, targetSwimLane)>> ELSE <<>>)
        \o (IF move THEN <<ItemMoveCall(item, targetColumn, targetSwimLane),
                           ItemMoveCall(item, targetColumn, targetSwimLane)>>
            ELSE <<>>)

\* if (onDrop) onDrop(dropEvent); if (onItemMove) onItemMove(...)
EmitCalls(item, targetColumn, targetSwimLane, drop, move) ==
    (IF drop THEN <<DropCall(item, targetColumn, targetSwimLane)>> ELSE <<>>)
        \o (IF move THEN <<ItemMoveCall(item, targetColumn, targetSwimLane)>>
            ELSE <<>>)

\* from "Create before drop event" to the end of the handler, the same text
\* in both versions; h is what the hook does if it is called.  An exception
\* of the hook is not caught: it ends the handler and escapes.
ValidateAndEmit(item, targetColumn, targetSwimLane, supplied, drop, move, h) ==
    LET before == IF supplied
                  THEN <<BeforeDropCall(item, targetColumn, targetSwimLane)>>
                  ELSE <<>>
        hook == IF supplied THEN h ELSE "notCalled"
    IN  IF supplied /\ h = "throws" THEN Outcome(before, hook, TRUE)
        ELSE IF ~CanDrop(supplied, h) THEN Outcome(before, hook, FALSE)
        ELSE Outcome(before \o EmitCalls(item, targetColumn, targetSwimLane,
                                         drop, move),
                     hook, FALSE)

\* handleDragEnd of the "registered" version
DragEndRegistered(its, ev, supplied, drop, move, h) ==
    IF ev.over.kind = "none" THEN Returned
    ELSE LET draggedItem == findItemById(its, ev.active)
             targetColumn == ev.over.column
             targetSwimLane == ev.over.swimLane
         IN  IF draggedItem = NoItem THEN Returned
             ELSE IF Falsy(targetColumn) \/ Falsy(targetSwimLane) THEN Returned
             ELSE IF SameLocation(draggedItem, targetColumn, targetSwimLane)
                  THEN Returned
             ELSE ValidateAndEmit(draggedItem, targetColumn, targetSwimLane,
                                  supplied, drop, move, h)

\* handleDragEnd of the "sortable" version
DragEndSortable(its, ev, supplied, drop, move, h) ==
    IF ev.over.kind = "none" THEN Returned
    ELSE LET draggedItem == findItemById(its, ev.active)
             targetColumn == SplitAt(ev.over.containerId, 0)
             targetSwimLane == SplitAt(ev.over.containerId, 1)
         IN  IF draggedItem = NoItem THEN Returned
             ELSE IF Falsy(targetColumn) \/ Falsy(targetSwimLane) THEN Returned
             ELSE ValidateAndEmit(draggedItem, targetColumn, targetSwimLane,
                                  supplied, drop, move, h)

\* The id of the SortableContext a sortable item lies in is the library's:
\* neither version gives its SortableContext an id.  Admitted are the id the
\* library makes up, a '-'-free id, and the `${column}-${swimLane}` of the
\* cell, which the parsing of the "sortable" version expects.
AutoContainerId == <<"Sortable", "0">>
PlainContainerId == <<"Sortable">>
ContainerIds(c, l) == {AutoContainerId, PlainContainerId, Dash(c, l)}

\* the cells a render mounts, collapsed or not
RegisteredCells == SeqToSet(columns) \X SeqToSet(swimLanes)

\* the cells that show an item: expanded, and not empty
CellsWithItems ==
    {p \in DOMAIN cells : /\ p[1] \notin collapsedColumns
                          /\ p[2] \notin collapsedSwimLanes
                          /\ cells[p] # <<>>}

\* the id cell p registers its droppable under
RegionId(p) == DroppableCell(p[1], p[2]).id

\* The DndContext keeps one droppable per id.  A cell whose id no other cell
\* registers is the droppable a gesture over it ends over.  Of the cells
\* that register the same id one is kept, and a gesture that ends over a
\* cell that is not kept is reported over the closest droppable that is:
\* any of the cells.
Hit(p) ==
    IF \E q \in SeqToSet(columns) \X SeqToSet(swimLanes) :
           q # p /\ RegionId(q) = RegionId(p)
    THEN SeqToSet(columns) \X SeqToSet(swimLanes)
    ELSE {p}

\* where a gesture can end.  "registered": nowhere, over one of the droppable
\* cells, or over a sortable item.  "sortable": no cell is a droppable;
\* nowhere, or over a sortable item.
Overs ==
    IF variant = "registered"
    THEN {NoOver}
             \cup UNION {{[OverCell(r[1], r[2]) EXCEPT !.cell = p] : r \in Hit(p)} :
                            p \in RegisteredCells}
             \cup {OverSortable(p[1], p[2], AutoContainerId) : p \in CellsWithItems}
    ELSE {NoOver}
             \cup UNION {{OverSortable(p[1], p[2], cid) : cid \in ContainerIds(p[1], p[2])} :
                            p \in CellsWithItems}

----------------------------------------------------------------------------
\* Column widths.  The code writes a width as a CSS length; 100% is
\* containerWidth px.  A length is modelled by its exact value in px, the
\* fraction num / den with den > 0, so that a division loses nothing.

Px(n) == [num |-> n, den |-> 1]
Div(a, n) == [num |-> a.num, den |-> a.den * n]
Plus(a, b) == [num |-> a.num * b.den + b.num * a.den, den |-> a.den * b.den]
SameLength(a, b) == a.num * b.den = b.num * a.den
Negative(a) == a.num < 0

\* the widths a container is laid out at: narrower than the lane header and
\* one collapsed column, exactly the lane header and two collapsed columns,
\* and wider
ContainerWidths == {240, 328, 600, 1000, 1280}
WidestContainer == CHOOSE w \in ContainerWidths : \A v \in ContainerWidths : v <= w

swimLaneWidth == 200
collapsedColumnWidth == 64

\* columns.filter(col => !collapsedColumns.has(col.id))
expandedColumns ==
    LET Expanded(columnId) == columnId \notin collapsedColumns
    IN  SelectSeq(columns, Expanded)

collapsedColumnCount == Len(columns) - Len(expandedColumns)

\* calc(100% - ${swimLaneWidth}px - ${collapsedColumnCount * collapsedColumnWidth}px)
availableWidth ==
    Px(containerWidth - swimLaneWidth - collapsedColumnCount * collapsedColumnWidth)

\* expandedColumns.length > 0 ? calc(${availableWidth} / ${expandedColumns.length}) : '0px'
expandedColumnWidth ==
    IF Len(expandedColumns) > 0 THEN Div(availableWidth, Len(expandedColumns))
    ELSE Px(0)

\* "registered": the width of a column's header and of its cells
getColumnWidth(columnId) ==
    IF columnId \in collapsedColumns THEN Px(collapsedColumnWidth)
    ELSE expandedColumnWidth

\* "sortable": collapsedColumns.has(column.id) ? 64
\*                 : 'calc((100% - 200px) / ' + columns.length + ')'
ColumnWidthSortable(columnId) ==
    IF columnId \in collapsedColumns THEN Px(64)
    ELSE Div(Px(containerWidth - 200), Len(columns))

\* the width the mounted version gives a column
ColumnWidth(columnId) ==
    IF variant = "registered" THEN getColumnWidth(columnId)
    ELSE ColumnWidthSortable(columnId)

----------------------------------------------------------------------------
\* The item list of a cell.  "sortable" hands the items of a cell to
\* VirtualizedItemList, which puts the items of a window on screen;
\* "registered" puts all of them on screen.

estimateSize == 120
overscan == 5
listHeight == 400

Min(a, b) == IF a <= b THEN a ELSE b
Max(a, b) == IF a >= b THEN a ELSE b

\* useVirtualizer({count: cellItems.length, getScrollElement,
\*                 estimateSize: () => 120, overscan: 5})
useVirtualizer(cellItems) ==
    [count |-> Len(cellItems), estimateSize |-> estimateSize,
     overscan |-> overscan]

\* The window is computed by the virtualizer of @tanstack/react-virtual,
\* which is not part of the source; the next two definitions follow the
\* description of the window in the specification of the board.

\* virtualizer.getTotalSize(): the extent of the whole list
getTotalSize(options) == options.count * options.estimateSize

\* virtualizer.getVirtualItems(): the indices (from 0) of the items whose
\* extent [i * E, (i + 1) * E] meets the viewport [offset, offset + outerSize]
\* widened by overscan items on either side
getVirtualItems(options, outerSize, offset) ==
    LET E == options.estimateSize
        K == options.overscan
    IN  {i \in 0..(options.count - 1) :
            /\ i * E < offset + outerSize + K * E
            /\ (i + 1) * E > offset - K * E}

\* how far the list scrolls: a box of listHeight px around one as high as
\* the whole list
MaxScrollTop(cellItems) ==
    Max(0, getTotalSize(useVirtualizer(cellItems)) - listHeight)

\* mutant: every item of the cell is put on screen
VirtualizedItemListUnwindowed(cellItems, offset) == 0..(Len(cellItems) - 1)

\* the indices of the items VirtualizedItemList puts on screen when its box
\* is scrolled to offset; nothing for an empty cell
VirtualizedItemList(cellItems, offset) ==
    IF Len(cellItems) = 0 THEN {}
    ELSE getVirtualItems(useVirtualizer(cellItems), listHeight, offset)

\* the indices of the items of cell p that are on screen
MaterializedItems(p) ==
    IF p[1] \in collapsedColumns \/ p[2] \in collapsedSwimLanes THEN {}
    ELSE IF variant = "sortable" THEN VirtualizedItemList(cells[p], scrollTop[p])
    ELSE 0..(Len(cells[p]) - 1)

\* the items a render puts on screen as draggables: those on screen of the
\* cells whose column and swim lane are both expanded
RenderedItemIds ==
    UNION {{cells[p][i + 1].id : i \in MaterializedItems(p)} : p \in DOMAIN cells}

\* the scroll offsets after a render: the list of a collapsed cell is not
\* mounted, and one that got shorter is scrolled no further than it goes
ScrollAfter(newCells, newCollapsedColumns, newCollapsedSwimLanes) ==
    [p \in DOMAIN scrollTop |->
        IF p[1] \in newCollapsedColumns \/ p[2] \in newCollapsedSwimLanes THEN 0
        ELSE Min(scrollTop[p], MaxScrollTop(newCells[p]))]

----------------------------------------------------------------------------
\* Operations

props == <<variant, columns, swimLanes, hasBeforeDrop, hasDrop, hasItemMove>>

\* what the browser lays out and scrolls
viewport == <<containerWidth, scrollTop>>

\* a step that handles no drag end invokes no callback
NoOutput ==
    /\ event' = NoEvent
    /\ hookResult' = "notCalled"
    /\ calls' = <<>>
    /\ threw' = FALSE

\* the snapshots one change of the caller's list away from its: the last item
\* removed, an item added at the end, an item rewritten (or left as it is).
\* Every snapshot is some number of such changes away from every other.
Edits(its, universe) ==
    {SubSeq(its, 1, Len(its) - 1) : n \in {Len(its)} \ {0}}
        \cup {Append(its, x) : x \in {y \in universe : Len(its) < MaxItems}}
        \cup {[its EXCEPT ![i] = x] : i \in DOMAIN its, x \in universe}

\* the caller renders the board with a (new) items snapshot
Render(its) ==
    /\ items' = its
    /\ cells' = RenderCells(its, columns, swimLanes)
    /\ scrollTop' = ScrollAfter(cells', collapsedColumns, collapsedSwimLanes)
    /\ NoOutput
    /\ UNCHANGED <<props, containerWidth, collapsedColumns, collapsedSwimLanes,
                   active, promise>>

\* mutant: collapsing or expanding a column expands every swim lane
toggleColumnResettingLanes(columnId) ==
    /\ collapsedColumns' = Toggle(collapsedColumns, columnId)
    /\ collapsedSwimLanes' = {}
    /\ scrollTop' = ScrollAfter(cells, collapsedColumns', collapsedSwimLanes')
    /\ NoOutput
    /\ UNCHANGED <<props, containerWidth, items, cells, active, promise>>

toggleColumn(columnId) ==
    /\ collapsedColumns' = Toggle(collapsedColumns, columnId)
    /\ scrollTop' = ScrollAfter(cells, collapsedColumns', collapsedSwimLanes)
    /\ NoOutput
    /\ UNCHANGED <<props, containerWidth, items, cells, collapsedSwimLanes,
                   active, promise>>

\* mutant: a swim lane that is collapsed loses the contents of its cells
toggleSwimLaneEmptyingCells(swimLaneId) ==
    /\ collapsedSwimLanes' = Toggle(collapsedSwimLanes, swimLaneId)
    /\ cells' = [p \in DOMAIN cells |->
                    IF p[2] \in collapsedSwimLanes' THEN <<>> ELSE cells[p]]
    /\ scrollTop' = ScrollAfter(cells', collapsedColumns, collapsedSwimLanes')
    /\ NoOutput
    /\ UNCHANGED <<props, containerWidth, items, collapsedColumns, active,
                   promise>>

toggleSwimLane(swimLaneId) ==
    /\ collapsedSwimLanes' = Toggle(collapsedSwimLanes, swimLaneId)
    /\ scrollTop' = ScrollAfter(cells, collapsedColumns, collapsedSwimLanes')
    /\ NoOutput
    /\ UNCHANGED <<props, containerWidth, items, cells, collapsedColumns,
                   active, promise>>

\* the DndContext activates a drag of a rendered item; it starts none while
\* another is active
DragStart(id) ==
    /\ active = UNDEFINED
    /\ id \in RenderedItemIds
    /\ active' = id
    /\ NoOutput
    /\ UNCHANGED <<props, viewport, items, cells, collapsedColumns, collapsedSwimLanes,
                   promise>>

\* what the mounted version's handleDragEnd does with {active, over}
DragEndOutcome(over, h) ==
    IF variant = "registered"
    THEN DragEndRegistered(items, DragEndEvent(active, over), hasBeforeDrop,
                           hasDrop, hasItemMove, h)
    ELSE DragEndSortable(items, DragEndEvent(active, over), hasBeforeDrop,
                         hasDrop, hasItemMove, h)

\* mutant: a drop that is let through also rewrites the dragged item
handleDragEndMoving(over, h) ==
    /\ active # UNDEFINED
    /\ over \in Overs
    /\ LET out == DragEndOutcome(over, h)
           last == IF out.calls = <<>> THEN BeforeDropCall(NoItem, UNDEFINED, UNDEFINED)
                   ELSE out.calls[Len(out.calls)]
       IN  /\ event' = DragEndEvent(active, over)
           /\ hookResult' = out.hook
           /\ calls' = out.calls
           /\ threw' = out.threw
           /\ promise' = IF out.hook = "returnsPromise" THEN "pending"
                         ELSE promise
           /\ items' = [i \in DOMAIN items |->
                           IF last.fn # "onBeforeDrop" /\ items[i].id = active
                           THEN [items[i] EXCEPT !.column = last.targetColumn,
                                                 !.swimLane = last.targetSwimLane]
                           ELSE items[i]]
    /\ active' = UNDEFINED
    /\ UNCHANGED <<props, viewport, cells, collapsedColumns, collapsedSwimLanes>>

\* mutant: a handler that throws leaves the session in place
handleDragEndStuckOnThrow(over, h) ==
    /\ active # UNDEFINED
    /\ over \in Overs
    /\ LET out == DragEndOutcome(over, h)
       IN  /\ event' = DragEndEvent(active, over)
           /\ hookResult' = out.hook
           /\ calls' = out.calls
           /\ threw' = out.threw
           /\ promise' = IF out.hook = "returnsPromise" THEN "pending"
                         ELSE promise
           /\ active' = IF out.threw THEN active ELSE UNDEFINED
    /\ UNCHANGED <<props, viewport, items, cells, collapsedColumns, collapsedSwimLanes>>

\* the DndContext ends the drag: it clears its active draggable and calls
\* onDragEnd={handleDragEnd} with {active, over}; h is what the hook does if
\* the handler calls it
handleDragEnd(over, h) ==
    /\ active # UNDEFINED
    /\ over \in Overs
    /\ LET out == DragEndOutcome(over, h)
       IN  /\ event' = DragEndEvent(active, over)
           /\ hookResult' = out.hook
           /\ calls' = out.calls
           /\ threw' = out.threw
           /\ promise' = IF out.hook = "returnsPromise" THEN "pending"
                         ELSE promise
    /\ active' = UNDEFINED
    /\ UNCHANGED <<props, viewport, items, cells, collapsedColumns, collapsedSwimLanes>>

\* the DndContext cancels the drag (Escape): no onDragCancel is registered
DragCancel ==
    /\ active # UNDEFINED
    /\ active' = UNDEFINED
    /\ NoOutput
    /\ UNCHANGED <<props, viewport, items, cells, collapsedColumns, collapsedSwimLanes,
                   promise>>

\* the promise an asynchronous hook returned settles, either way; the handler
\* attached nothing to it
Settle ==
    /\ promise = "pending"
    /\ promise' = "none"
    /\ NoOutput
    /\ UNCHANGED <<props, viewport, items, cells, collapsedColumns, collapsedSwimLanes,
                   active>>

Init ==
    /\ variant \in {"registered", "sortable"}
    /\ items \in Snapshots
    /\ columns = <<Todo, Done>>
    /\ swimLanes = <<Frontend, Backend>>
    /\ hasBeforeDrop \in BOOLEAN
    /\ hasDrop \in BOOLEAN
    /\ hasItemMove \in BOOLEAN
    /\ collapsedColumns = {}
    /\ collapsedSwimLanes = {}
    /\ cells = RenderCells(items, columns, swimLanes)
    /\ active = UNDEFINED
    /\ promise = "none"
    /\ containerWidth = WidestContainer
    /\ scrollTop = [p \in RegisteredCells |-> 0]
    /\ event = NoEvent
    /\ hookResult = "notCalled"
    /\ calls = <<>>
    /\ threw = FALSE

Next ==
    \/ \E its \in Edits(items, KanbanItem) : Render(its)
    \/ \E c \in SeqToSet(columns) : toggleColumn(c)
    \/ \E l \in SeqToSet(swimLanes) : toggleSwimLane(l)
    \/ \E id \in ItemIds : DragStart(id)
    \/ \E over \in Overs, h \in HookOutcomes : handleDragEnd(over, h)
    \/ DragCancel
    \/ Settle

Spec == Init /\ [][Next]_vars

----------------------------------------------------------------------------
\* A board whose column and swim-lane ids contain '-': the columns
\* "in-progress" and "in", the swim lanes "qa" and "progress-qa"

ColInProgress == <<"in", "progress">>
ColIn == <<"in">>
LaneQa == <<"qa">>
LaneProgressQa == <<"progress", "qa">>

DashedItem ==
    [id : ItemIds, column : {ColInProgress, ColIn}, swimLane : {LaneQa, LaneProgressQa}]

InitDashed ==
    /\ variant \in {"registered", "sortable"}
    /\ items \in UNION {[1..n -> DashedItem] : n \in 0..MaxItems}
    /\ columns = <<ColInProgress, ColIn>>
    /\ swimLanes = <<LaneQa, LaneProgressQa>>
    /\ hasBeforeDrop \in BOOLEAN
    /\ hasDrop = TRUE
    /\ hasItemMove = TRUE
    /\ collapsedColumns = {}
    /\ collapsedSwimLanes = {}
    /\ cells = RenderCells(items, columns, swimLanes)
    /\ active = UNDEFINED
    /\ promise = "none"
    /\ containerWidth = WidestContainer
    /\ scrollTop = [p \in RegisteredCells |-> 0]
    /\ event = NoEvent
    /\ hookResult = "notCalled"
    /\ calls = <<>>
    /\ threw = FALSE

NextDashed ==
    \/ \E its \in Edits(items, DashedItem) : Render(its)
    \/ \E c \in SeqToSet(columns) : toggleColumn(c)
    \/ \E l \in SeqToSet(swimLanes) : toggleSwimLane(l)
    \/ \E id \in ItemIds : DragStart(id)
    \/ \E over \in Overs, h \in HookOutcomes : handleDragEnd(over, h)
    \/ DragCancel
    \/ Settle

SpecDashed == InitDashed /\ [][NextDashed]_vars

----------------------------------------------------------------------------
\* The layout alone: any of the container widths, any one or two columns
\* supplied, any collapse state

\* the browser lays the board out at another width
Resize(w) ==
    /\ w # containerWidth
    /\ containerWidth' = w
    /\ NoOutput
    /\ UNCHANGED <<props, items, cells, collapsedColumns, collapsedSwimLanes,
                   active, promise, scrollTop>>

InitLayout ==
    /\ variant \in {"registered", "sortable"}
    /\ items = <<>>
    /\ columns \in Orderings(ColumnIds) \ {<<>>}
    /\ swimLanes = <<Frontend, Backend>>
    /\ hasBeforeDrop = FALSE
    /\ hasDrop = FALSE
    /\ hasItemMove = FALSE
    /\ collapsedColumns = {}
    /\ collapsedSwimLanes = {}
    /\ cells = RenderCells(items, columns, swimLanes)
    /\ active = UNDEFINED
    /\ promise = "none"
    /\ containerWidth \in ContainerWidths
    /\ scrollTop = [p \in RegisteredCells |-> 0]
    /\ event = NoEvent
    /\ hookResult = "notCalled"
    /\ calls = <<>>
    /\ threw = FALSE

NextLayout ==
    \/ \E w \in ContainerWidths : Resize(w)
    \/ \E c \in SeqToSet(columns) : toggleColumn(c)
    \/ \E l \in SeqToSet(swimLanes) : toggleSwimLane(l)

SpecLayout == InitLayout /\ [][NextLayout]_vars

----------------------------------------------------------------------------
\* The grid alone: any snapshot over any supplied columns and swim lanes, an
\* item's column and swim lane need not be among those supplied

GridItemIds == {<<"A">>, <<"B">>}
GridItem == [id : GridItemIds, column : ColumnIds, swimLane : SwimLaneIds]
GridSnapshots == UNION {[1..n -> GridItem] : n \in 0..MaxItems}

InitGrid ==
    /\ variant = "registered"
    /\ items \in GridSnapshots
    /\ columns \in Orderings(ColumnIds)
    /\ swimLanes \in Orderings(SwimLaneIds)
    /\ hasBeforeDrop = FALSE
    /\ hasDrop = FALSE
    /\ hasItemMove = FALSE
    /\ collapsedColumns = {}
    /\ collapsedSwimLanes = {}
    /\ cells = RenderCells(items, columns, swimLanes)
    /\ active = UNDEFINED
    /\ promise = "none"
    /\ containerWidth = WidestContainer
    /\ scrollTop = [p \in RegisteredCells |-> 0]
    /\ event = NoEvent
    /\ hookResult = "notCalled"
    /\ calls = <<>>
    /\ threw = FALSE

NextGrid == \E its \in Edits(items, GridItem) : Render(its)

SpecGrid == InitGrid /\ [][NextGrid]_vars

----------------------------------------------------------------------------
\* Claims

RECURSIVE SumOfLengths(_, _)
SumOfLengths(f, S) ==
    IF S = {} THEN 0
    ELSE LET p == CHOOSE q \in S : TRUE
         IN  Len(f[p]) + SumOfLengths(f, S \ {p})

\* positions of the snapshot whose column and swim lane are both supplied
ValidPositions ==
    {i \in DOMAIN items : /\ items[i].column \in SeqToSet(columns)
                          /\ items[i].swimLane \in SeqToSet(swimLanes)}

\* C1 (partition law): the cells of a render hold, between them, exactly the
\* items whose column and swim lane are both supplied, each once; no item is
\* in two cells; an item with an unknown column or swim lane is in no cell.
C1_PartitionLaw ==
    /\ DOMAIN cells = SeqToSet(columns) \X SeqToSet(swimLanes)
    /\ UNION {SeqToSet(cells[p]) : p \in DOMAIN cells}
           = {items[i] : i \in ValidPositions}
    /\ SumOfLengths(cells, DOMAIN cells) = Cardinality(ValidPositions)
    /\ \A p, q \in DOMAIN cells :
           p # q => SeqToSet(cells[p]) \cap SeqToSet(cells[q]) = {}
    /\ \A i \in DOMAIN items \ ValidPositions :
           \A p \in DOMAIN cells : items[i] \notin SeqToSet(cells[p])

\* a render of several cells that puts one item of the snapshot in a cell
\* and leaves the other, whose swim lane or column is not supplied, out
C1_Witness ==
    /\ Cardinality(DOMAIN cells) >= 2
    /\ Len(items) = 2
    /\ Cardinality(ValidPositions) = 1
    /\ \E p \in DOMAIN cells : Len(cells[p]) = 1

----------------------------------------------------------------------------
\* The drag end the last step handled, seen from outside the handler.  The
\* step leaves the snapshot as it is, so the item it dragged is looked up in
\* the snapshot of the state it produced.

HandledDragEnd == event # NoEvent

Dragged == findItemById(items, event.active)

SourceCell == <<Dragged.column, Dragged.swimLane>>

Invoked(fn) == {i \in DOMAIN calls : calls[i].fn = fn}

NoRelocation == Invoked("onDrop") = {} /\ Invoked("onItemMove") = {}

\* the drop region carries the identifiers of the cell it lies in: a droppable
\* cell in its data, a sortable item in its container id
CarriesItsCell(over) ==
    \/ variant = "registered" /\ over.kind = "cell"
    \/ /\ variant = "sortable"
       /\ over.kind = "sortable"
       /\ over.containerId = Dash(over.cell[1], over.cell[2])

\* the drop region carries no column or no swim-lane identifier
LacksIdentifier(over) ==
    \/ variant = "registered" /\ over.kind = "sortable"
    \/ /\ variant = "sortable"
       /\ over.kind = "sortable"
       /\ Len(over.containerId) < 2

\* C2 (drop idempotence): a drag of a known item that ends over the cell the
\* item is in invokes neither onDrop nor onItemMove, whatever the hook would
\* answer, and leaves the controller idle.
C2_DropIdempotence ==
    (/\ HandledDragEnd
     /\ event.over.kind # "none"
     /\ Dragged # NoItem
     /\ event.over.cell = SourceCell)
        => NoRelocation /\ active = UNDEFINED

\* C3 (veto): a drag end in which the supplied onBeforeDrop returns false
\* invokes neither onDrop nor onItemMove, leaves the snapshot as it is (the
\* item stays in its source cell) and leaves the controller idle.
C3_Veto ==
    [][hookResult' = "returnsFalse"
           => /\ \A i \in DOMAIN calls' : calls'[i].fn = "onBeforeDrop"
              /\ items' = items
              /\ active' = UNDEFINED]_vars

\* item A at (todo, frontend) is dropped on the cell (done, backend) and the
\* hook, called once, returns false
C3_Witness ==
    /\ hookResult = "returnsFalse"
    /\ event.over.kind = "cell"
    /\ event.over.cell = <<Done, Backend>>
    /\ SourceCell = <<Todo, Frontend>>
    /\ Len(calls) = 1
    /\ hasDrop /\ hasItemMove

\* C4 (default allow): with no onBeforeDrop supplied, a drop of a known item
\* on a cell other than its own, whose drop region carries the cell's
\* identifiers, invokes onDrop (if supplied) with the item's id, the item's
\* cell as source, the target cell and the item, and then onItemMove (if
\* supplied) with the item's id and the target cell; nothing else is invoked.
C4_DefaultAllow ==
    (/\ HandledDragEnd
     /\ ~hasBeforeDrop
     /\ Dragged # NoItem
     /\ CarriesItsCell(event.over)
     /\ event.over.cell # SourceCell)
        => calls =
             (IF hasDrop
              THEN <<[fn |-> "onDrop", itemId |-> event.active,
                      sourceColumn |-> Dragged.column,
                      sourceSwimLane |-> Dragged.swimLane,
                      targetColumn |-> event.over.cell[1],
                      targetSwimLane |-> event.over.cell[2],
                      item |-> Dragged]>>
              ELSE <<>>)
             \o (IF hasItemMove
                 THEN <<[fn |-> "onItemMove", itemId |-> event.active,
                         sourceColumn |-> UNDEFINED,
                         sourceSwimLane |-> UNDEFINED,
                         targetColumn |-> event.over.cell[1],
                         targetSwimLane |-> event.over.cell[2],
                         item |-> NoItem]>>
                 ELSE <<>>)

\* item A at (todo, frontend) is dropped on the cell (done, backend), no hook
\* is supplied, onDrop and onItemMove are: both were invoked
C4_Witness ==
    /\ ~hasBeforeDrop /\ hasDrop /\ hasItemMove
    /\ variant = "registered"
    /\ event.over = OverCell(Done, Backend)
    /\ SourceCell = <<Todo, Frontend>>
    /\ Len(calls) = 2

\* C5 (asynchronous hook): while the promise the hook returned is pending,
\* neither onDrop nor onItemMove has been invoked for that drop.
C5_AsyncHookHonoured ==
    (hookResult = "returnsPromise" /\ promise = "pending") => NoRelocation

\* C6 (hook failure): a drag end in which the hook throws invokes neither
\* onDrop nor onItemMove, lets no exception out of the handler and leaves the
\* controller idle.
C6_ThrowIsDeny ==
    hookResult = "throws" => NoRelocation /\ ~threw /\ active = UNDEFINED

\* C7 (single session): while a session is active or the hook's promise is
\* pending, no drag start is taken: the active draggable stays, or the
\* session ends.
C7_SingleSession ==
    [][(active # UNDEFINED \/ promise = "pending")
           => (active' = active \/ active' = UNDEFINED)]_vars

\* C8 (at most once): one drag end invokes each of onBeforeDrop, onDrop and
\* onItemMove at most once.
C8_AtMostOnce ==
    \A fn \in {"onBeforeDrop", "onDrop", "onItemMove"} :
        Cardinality(Invoked(fn)) <= 1

\* a drop that invoked all three
C8_Witness ==
    /\ Len(calls) = 3
    /\ \A fn \in {"onBeforeDrop", "onDrop", "onItemMove"} : Invoked(fn) # {}

\* C9 (the snapshot is the caller's): no step of the board changes the items
\* snapshot; it changes only when the caller renders the board with another.
C9_ItemsNotMutated ==
    [][items' # items => \E its \in Edits(items, KanbanItem) : Render(its)]_vars

\* with a column collapsed, a drop was let through and announced, and the
\* item is still where the caller put it
C9_Witness ==
    /\ Invoked("onDrop") # {}
    /\ Invoked("onItemMove") # {}
    /\ collapsedColumns # {}
    /\ Dragged # NoItem
    /\ <<calls[Len(calls)].targetColumn, calls[Len(calls)].targetSwimLane>>
           # SourceCell

\* C10 (unresolvable target): a drag that ends over nothing, or over a drop
\* region that carries no column or no swim-lane identifier, invokes no
\* callback, lets no exception out and leaves the controller idle.
C10_UnresolvableTarget ==
    (HandledDragEnd /\ (event.over.kind = "none" \/ LacksIdentifier(event.over)))
        => calls = <<>> /\ ~threw /\ active = UNDEFINED

\* a known item was dropped on a sortable item, which carries no cell
\* identifiers, with every callback supplied
C10_Witness ==
    /\ HandledDragEnd
    /\ LacksIdentifier(event.over)
    /\ Dragged # NoItem
    /\ hasBeforeDrop /\ hasDrop /\ hasItemMove
    /\ calls = <<>>

\* the id the gesture carries is the id of no item of the snapshot
UnknownItemId == \A i \in DOMAIN items : items[i].id # event.active

\* C11 (unknown item id): a drag end whose gesture carries an id that is not
\* in the items snapshot calls no hook, invokes neither onDrop nor onItemMove,
\* lets no exception out and leaves the controller idle.
C11_UnknownItemId ==
    (HandledDragEnd /\ UnknownItemId)
        => /\ calls = <<>>
           /\ hookResult = "notCalled"
           /\ ~threw
           /\ active = UNDEFINED

\* the caller took the dragged item out of the snapshot during the drag; the
\* drag ended over a droppable cell with every callback supplied
C11_Witness ==
    /\ HandledDragEnd
    /\ UnknownItemId
    /\ event.over.kind = "cell"
    /\ hasBeforeDrop /\ hasDrop /\ hasItemMove

AnyIds == ColumnIds \cup SwimLaneIds \cup {<<"other">>}

\* C13 (collapse involution): in every collapse state and for every id,
\* toggling the id twice gives the collapsed set back; in particular the
\* toggle that follows a toggleColumn(c) or toggleSwimLane(l) step with the
\* same id restores the set the step started from.
C13_CollapseInvolution ==
    [][/\ \A id \in AnyIds :
              /\ Toggle(Toggle(collapsedColumns, id), id) = collapsedColumns
              /\ Toggle(Toggle(collapsedSwimLanes, id), id) = collapsedSwimLanes
       /\ \A c \in SeqToSet(columns) :
              toggleColumn(c) => Toggle(collapsedColumns', c) = collapsedColumns
       /\ \A l \in SeqToSet(swimLanes) :
              toggleSwimLane(l)
                  => Toggle(collapsedSwimLanes', l) = collapsedSwimLanes]_vars

\* toggles have collapsed one column and one swim lane and left the others
\* expanded
C13_Witness ==
    /\ collapsedColumns = {Done}
    /\ collapsedSwimLanes = {Frontend}

\* C14 (toggle frame): toggleColumn(x) flips the membership of x in
\* collapsedColumns, keeps that of every other id and leaves
\* collapsedSwimLanes as it is; symmetrically for toggleSwimLane; and a step
\* that changes either set is one of the two toggles.
C14_ToggleFrame ==
    [][/\ \A x \in SeqToSet(columns) :
              toggleColumn(x)
                  => /\ (x \in collapsedColumns') <=> (x \notin collapsedColumns)
                     /\ \A y \in AnyIds \ {x} :
                            (y \in collapsedColumns') <=> (y \in collapsedColumns)
                     /\ collapsedSwimLanes' = collapsedSwimLanes
       /\ \A x \in SeqToSet(swimLanes) :
              toggleSwimLane(x)
                  => /\ (x \in collapsedSwimLanes') <=> (x \notin collapsedSwimLanes)
                     /\ \A y \in AnyIds \ {x} :
                            (y \in collapsedSwimLanes') <=> (y \in collapsedSwimLanes)
                     /\ collapsedColumns' = collapsedColumns
       /\ (collapsedColumns' # collapsedColumns
               \/ collapsedSwimLanes' # collapsedSwimLanes)
              => \/ \E x \in SeqToSet(columns) : toggleColumn(x)
                 \/ \E x \in SeqToSet(swimLanes) : toggleSwimLane(x)]_vars

\* every column and every swim lane is collapsed, and a drag that started
\* before went on to a drop that was announced
C14_Witness ==
    /\ collapsedColumns = SeqToSet(columns)
    /\ collapsedSwimLanes = SeqToSet(swimLanes)
    /\ HandledDragEnd
    /\ Invoked("onItemMove") # {}

----------------------------------------------------------------------------
\* One long list: items named as the demonstration names them, all of them
\* in one cell, and the list of that cell scrolled px by px or item by item

\* id: `item-${i}`
GeneratedItem(i) ==
    [id |-> <<"item", ToString(i)>>, column |-> Todo, swimLane |-> Frontend]

GeneratedItems(n) == [i \in 1..n |-> GeneratedItem(i)]

ScrollDeltas == {-estimateSize, -1, 1, estimateSize}

\* the user scrolls the list of cell p by d px, as far as it goes
Scroll(p, d) ==
    /\ variant = "sortable"
    /\ p[1] \notin collapsedColumns /\ p[2] \notin collapsedSwimLanes
    /\ cells[p] # <<>>
    /\ scrollTop[p] + d \in 0..MaxScrollTop(cells[p])
    /\ scrollTop' = [scrollTop EXCEPT ![p] = scrollTop[p] + d]
    /\ NoOutput
    /\ UNCHANGED <<props, containerWidth, items, cells, collapsedColumns,
                   collapsedSwimLanes, active, promise>>

InitWindow ==
    /\ variant = "sortable"
    /\ items \in {GeneratedItems(n) : n \in 0..MaxCount}
    /\ columns = <<Todo, Done>>
    /\ swimLanes = <<Frontend, Backend>>
    /\ hasBeforeDrop = FALSE
    /\ hasDrop = FALSE
    /\ hasItemMove = FALSE
    /\ collapsedColumns = {}
    /\ collapsedSwimLanes = {}
    /\ cells = RenderCells(items, columns, swimLanes)
    /\ active = UNDEFINED
    /\ promise = "none"
    /\ containerWidth = WidestContainer
    /\ scrollTop = [p \in RegisteredCells |-> 0]
    /\ event = NoEvent
    /\ hookResult = "notCalled"
    /\ calls = <<>>
    /\ threw = FALSE

NextWindow ==
    \/ \E p \in RegisteredCells, d \in ScrollDeltas : Scroll(p, d)
    \/ \E n \in {Len(items) - 1, Len(items) + 1} \cap (0..MaxCount) :
           Render(GeneratedItems(n))

SpecWindow == InitWindow /\ [][NextWindow]_vars

----------------------------------------------------------------------------
\* Widths

RECURSIVE SumOfWidths(_)
SumOfWidths(cols) ==
    IF cols = <<>> THEN Px(0)
    ELSE Plus(ColumnWidth(Head(cols)), SumOfWidths(Tail(cols)))

\* C15 (width conservation): in every collapse state, the widths of all the
\* columns, collapsed and expanded, add up to the width the columns have
\* between them: that of the container less the swim-lane header.
C15_WidthConservation ==
    SameLength(SumOfWidths(columns), Px(containerWidth - swimLaneWidth))

\* C16 (expanded width): the expanded column width the "registered" version
\* computes is zero when no column is expanded, and is never negative.
C16_ExpandedWidthNotNegative ==
    variant = "registered"
        => /\ expandedColumns = <<>> => SameLength(expandedColumnWidth, Px(0))
           /\ ~Negative(expandedColumnWidth)

----------------------------------------------------------------------------
\* Collapse and cell contents

\* the items of the snapshot that belong in cell p, in snapshot order
Members(p) ==
    LET In(item) == item.column = p[1] /\ item.swimLane = p[2]
    IN  SelectSeq(items, In)

Collapsed(p) == p[1] \in collapsedColumns \/ p[2] \in collapsedSwimLanes

\* C17 (collapsing never changes cell membership): in every collapse state
\* every cell holds exactly the items of the snapshot with its column and
\* swim lane, as with nothing collapsed; and the contents of a cell are on
\* screen only if neither its column nor its swim lane is collapsed: a drag
\* starts only on an item of a cell that is not collapsed.
C17_CollapseKeepsMembership ==
    [][/\ \A p \in DOMAIN cells : cells[p] = Members(p)
       /\ \A p \in DOMAIN cells' : cells'[p] = Members(p)'
       /\ (active = UNDEFINED /\ active' # UNDEFINED)
              => \E p \in DOMAIN cells :
                     /\ ~Collapsed(p)
                     /\ \E i \in DOMAIN cells[p] : cells[p][i].id = active']_vars

\* a collapsed swim lane and a collapsed column of another lane both hold
\* an item; nothing is on screen
C17_Witness ==
    /\ \E p \in DOMAIN cells : p[2] \in collapsedSwimLanes /\ cells[p] # <<>>
    /\ \E p \in DOMAIN cells :
           /\ p[1] \in collapsedColumns
           /\ p[2] \notin collapsedSwimLanes
           /\ cells[p] # <<>>
    /\ RenderedItemIds = {}

----------------------------------------------------------------------------
\* The window of a list

\* ceil(a / b)
CeilDiv(a, b) == (a + b - 1) \div b

Contiguous(S) == \A i, j \in S : \A k \in i..j : k \in S

\* C18 as claimed (virtualization bound): at every scroll position the items
\* of a cell that are on screen are at most ceil(H / E) + 2K, whatever the
\* length of the list, their indices form one range, and the range includes
\* index 0 when scrollTop = 0 and the cell is not empty.
C18_VirtualizationBound ==
    \A p \in DOMAIN cells :
        /\ Cardinality(MaterializedItems(p))
               <= CeilDiv(listHeight, estimateSize) + 2 * overscan
        /\ Contiguous(MaterializedItems(p))
        /\ (scrollTop[p] = 0 /\ Len(cells[p]) > 0) => 0 \in MaterializedItems(p)

\* C18 as amended: the same with the bound ceil(H / E) + 2K + 1; a viewport
\* that does not start on an item boundary meets one item more.
C18_VirtualizationBoundPlusOne ==
    \A p \in DOMAIN cells :
        /\ Cardinality(MaterializedItems(p))
               <= CeilDiv(listHeight, estimateSize) + 2 * overscan + 1
        /\ Contiguous(MaterializedItems(p))
        /\ (scrollTop[p] = 0 /\ Len(cells[p]) > 0) => 0 \in MaterializedItems(p)

\* a list scrolled off an item boundary, far enough from both of its ends
\* for the whole overscan to be on screen: ceil(H / E) + 2K + 1 items of it
\* are, and not the first
C18_Witness ==
    \E p \in DOMAIN cells :
        /\ Cardinality(MaterializedItems(p))
               = CeilDiv(listHeight, estimateSize) + 2 * overscan + 1
        /\ Len(cells[p]) > Cardinality(MaterializedItems(p))
        /\ 0 \notin MaterializedItems(p)

----------------------------------------------------------------------------
\* The events of a drop

C20_TargetIsRegisteredCell ==
    /\ \A i \in DOMAIN calls :
           /\ <<calls[i].targetColumn, calls[i].targetSwimLane>> = event.over.cell
           /\ calls[i].targetColumn \in SeqToSet(columns)
           /\ calls[i].targetSwimLane \in SeqToSet(swimLanes)
    /\ \A p, q \in RegisteredCells : p # q => RegionId(p) # RegionId(q)

====
